---- MODULE Spec2Model ----
(***************************************************************************)
(* Store2Hydro: scenario scripts that mutate the component tables of a     *)
(* power-grid model (rescale loads, convert hydro, expand transmission,    *)
(* add batteries, add a CO2 cap), solve it and export it.                  *)
(*                                                                         *)
(* Numbers: the scripts compute in IEEE doubles.  The model computes in    *)
(* exact rationals extended with inf and nan, so rounding is abstracted    *)
(* but division by zero and the propagation of non-finite values are not.  *)
(* Strings are sequences of one-character strings, so that splitting on    *)
(* '_' and building names by concatenation are computed.                   *)
(***************************************************************************)
EXTENDS Integers, Sequences, FiniteSets, TLC

VARIABLES
  network,     \* the model in memory
  pre,         \* the model as it was when the latest call began
  last,        \* the latest call: function, arguments, outcome
  program,     \* the script that runs
  file,        \* the model stored in the base file
  co2_limits,  \* the scenario list of the script
  idx,         \* index of the scenario being run
  pc,          \* the statement the script is at
  status,      \* what the latest network.optimize returned
  outputs      \* the exports written so far

vars == <<network, pre, last, program, file, co2_limits, idx, pc, status, outputs>>

caller == <<network, pre, last>>

script == <<program, file, co2_limits, idx, pc, status, outputs>>

(***************************************************************************)
(* Bounds of the model.                                                    *)
(***************************************************************************)
MaxLoads == 2

MaxDemand == 1

MaxLifetime == 10

(***************************************************************************)
(* Floating-point values: [k |-> "fin", n, d] (n/d in lowest terms, d > 0),*)
(* [k |-> "inf"] and [k |-> "nan"].  Demands are non-negative, so -inf     *)
(* does not arise.                                                         *)
(***************************************************************************)
Abs(x) == IF x < 0 THEN -x ELSE x

RECURSIVE Gcd(_, _)
Gcd(a, b) == IF b = 0 THEN a ELSE Gcd(b, a % b)

R(n, d) ==
  LET g == Gcd(Abs(n), d)
  IN  [k |-> "fin", n |-> n \div g, d |-> d \div g]

Inf == [k |-> "inf"]

NaN == [k |-> "nan"]

IsFinite(x) == x.k = "fin"

Zero == R(0, 1)

One == R(1, 1)

\* x * y on doubles: nan absorbs, 0 * inf = nan.
FMul(x, y) ==
  IF x.k = "nan" \/ y.k = "nan" THEN NaN
  ELSE IF x.k = "inf" \/ y.k = "inf"
       THEN IF (x.k = "fin" /\ x.n = 0) \/ (y.k = "fin" /\ y.n = 0) THEN NaN ELSE Inf
  ELSE LET g1 == Gcd(Abs(x.n), y.d)
           g2 == Gcd(Abs(y.n), x.d)
       IN  R((x.n \div g1) * (y.n \div g2), (x.d \div g2) * (y.d \div g1))

\* x / y as numpy divides doubles: x/0 = inf for x > 0, 0/0 = nan, no exception.
FDiv(x, y) ==
  IF x.k = "nan" \/ y.k = "nan" THEN NaN
  ELSE IF x.k = "inf" THEN (IF y.k = "inf" THEN NaN ELSE Inf)
  ELSE IF y.k = "inf" THEN Zero
  ELSE IF y.n = 0 THEN (IF x.n = 0 THEN NaN ELSE Inf)
  ELSE FMul(x, IF y.n < 0 THEN R(-y.d, -y.n) ELSE R(y.d, y.n))

FAdd(x, y) ==
  IF x.k = "nan" \/ y.k = "nan" THEN NaN
  ELSE IF x.k = "inf" \/ y.k = "inf" THEN Inf
  ELSE LET g == Gcd(x.d, y.d)
           l == (x.d \div g) * y.d
       IN  R(x.n * (l \div x.d) + y.n * (l \div y.d), l)

RECURSIVE FSum(_)
FSum(s) ==
  IF Len(s) = 0 THEN Zero
  ELSE IF Len(s) = 1 THEN s[1]
  ELSE LET h == Len(s) \div 2
       IN  FAdd(FSum(SubSeq(s, 1, h)), FSum(SubSeq(s, h + 1, Len(s))))

(***************************************************************************)
(* Strings.                                                                *)
(***************************************************************************)
RECURSIVE LastUnderscore(_, _)
LastUnderscore(s, i) ==
  IF i = 0 THEN 0
  ELSE IF s[i] = "_" THEN i
  ELSE LastUnderscore(s, i - 1)

\* x.split('_')[-1]: the text after the last underscore, all of x without one.
SplitLast(x) == SubSeq(x, LastUnderscore(x, Len(x)) + 1, Len(x))

AT0 == <<"A", "T", "0", " ", "0">>

NO2 == <<"N", "O", "2", " ", "0">>

xAT0 == <<"x", "_">> \o AT0

Code(a, b, c) == <<a, b, c, " ", "0">>

Digit(i) == <<"1", "2", "3", "4", "5", "6", "7", "8", "9">>[i]

(***************************************************************************)
(* The grid model: one record of component tables.  A table is the         *)
(* sequence of its rows in index order; loads_t_p_set has a column only    *)
(* for a load with a time-varying demand, as a function from load name to  *)
(* its series over the snapshots; generators_t maps an attribute name to   *)
(* a table of series.                                                      *)
(***************************************************************************)
None == [k |-> "none"]

Names(table) == {table[i].name : i \in 1..Len(table)}

Range(s) == {s[i] : i \in 1..Len(s)}

Row(table, name) == table[CHOOSE i \in 1..Len(table) : table[i].name = name]

StorageUnitDefaults ==
  [p_nom |-> Zero, p_nom_extendable |-> FALSE, max_hours |-> One,
   efficiency_store |-> One, efficiency_dispatch |-> One, p_min_pu |-> R(-1, 1),
   cyclic_state_of_charge |-> FALSE, capital_cost |-> Zero, e_nom |-> None,
   standing_loss |-> Zero, inflow |-> Zero, carrier |-> ""]

GeneratorDefaults ==
  [p_nom |-> Zero, p_nom_extendable |-> FALSE, efficiency |-> One,
   marginal_cost |-> Zero, capital_cost |-> Zero, carrier |-> ""]

LinkDefaults ==
  [p_nom |-> Zero, p_nom_extendable |-> FALSE, efficiency |-> One,
   capital_cost |-> Zero, carrier |-> ""]

\* A record with the fields of d, those of r taking precedence.
With(d, r) ==
  [f \in DOMAIN d \cup DOMAIN r |-> IF f \in DOMAIN r THEN r[f] ELSE d[f]]

(***************************************************************************)
(* rescale_loads                                                           *)
(***************************************************************************)
gtoe_electricity ==
  << <<Code("A", "T", "0"), R(11975, 1000)>>,
     <<Code("B", "E", "0"), R(15118, 1000)>>,
     <<Code("B", "G", "0"), R(5364, 1000)>>,
     <<Code("C", "Z", "0"), R(12211, 1000)>>,
     <<Code("D", "E", "0"), R(89121, 1000)>>,
     <<Code("D", "K", "0"), FMul(R(57, 100), R(5929, 1000))>>,
     <<Code("D", "K", "6"), FMul(R(43, 100), R(5929, 1000))>>,
     <<Code("E", "E", "5"), R(1516, 1000)>>,
     <<Code("E", "S", "0"), FMul(R(98, 100), R(398473, 10000))>>,
     <<Code("E", "S", "3"), FMul(R(2, 100), R(398473, 10000))>>,
     <<Code("F", "I", "6"), R(8476, 1000)>>,
     <<Code("F", "R", "0"), R(70668, 1000)>>,
     <<Code("G", "B", "4"), FMul(R(98, 100), R(51032, 1000))>>,
     <<Code("G", "B", "2"), FMul(R(2, 100), R(51032, 1000))>>,
     <<Code("G", "R", "0"), R(8002, 1000)>>,
     <<Code("H", "R", "0"), R(3054, 1000)>>,
     <<Code("H", "U", "0"), R(8583, 1000)>>,
     <<Code("I", "E", "2"), R(4972, 1000)>>,
     <<Code("I", "T", "0"), FMul(R(96, 100), R(49571, 1000))>>,
     <<Code("I", "T", "1"), FMul(R(4, 100), R(49571, 1000))>>,
     <<Code("L", "T", "5"), R(1512, 1000)>>,
     <<Code("L", "U", "0"), R(1180, 1000)>>,
     <<Code("L", "V", "5"), R(2320, 1000)>>,
     <<Code("N", "L", "0"), R(19456, 1000)>>,
     <<Code("P", "L", "0"), R(35345, 1000)>>,
     <<Code("P", "T", "0"), R(7941, 1000)>>,
     <<Code("R", "O", "0"), R(11551, 1000)>>,
     <<Code("S", "E", "6"), R(14514, 1000)>>,
     <<Code("S", "I", "0"), R(2510, 1000)>>,
     <<Code("S", "K", "0"), R(4362, 1000)>> >>

TargetKeys == {gtoe_electricity[i][1] : i \in 1..Len(gtoe_electricity)}

gtoe_to_twh == R(11630, 1000)

\* target_twh = pd.Series(gtoe_electricity) * gtoe_to_twh
target_twh(c) ==
  LET i == CHOOSE j \in 1..Len(gtoe_electricity) : gtoe_electricity[j][1] = c
  IN  FMul(gtoe_electricity[i][2], gtoe_to_twh)

\* load_country = n.loads['bus'].apply(lambda x: x.split('_')[-1])
load_country(n, load) == SplitLast(Row(n.loads, load).bus)

\* n.loads_t.p_set.sum(): per column, the sum over the snapshots.
ColumnSum(n, load) == FSum(n.loads_t_p_set[load])

\* The countries that head a group: those of the loads that have a column.
ModelCountries(n) == {load_country(n, l) : l \in DOMAIN n.loads_t_p_set}

\* n.loads_t.p_set.sum().groupby(load_country).sum() / 1e6
load_sums_by_country(n, c) ==
  LET rows == SelectSeq(n.loads, LAMBDA r : r.name \in DOMAIN n.loads_t_p_set
                                            /\ SplitLast(r.bus) = c)
      sums == [i \in 1..Len(rows) |-> ColumnSum(n, rows[i].name)]
  IN  FDiv(FSum(sums), R(1000000, 1))

\* Variant: the target left in Gtoe, not converted to TWh.
FactorRaw_gtoe(n, c) ==
  IF c \in TargetKeys /\ c \in ModelCountries(n)
  THEN FDiv(FDiv(target_twh(c), gtoe_to_twh), load_sums_by_country(n, c))
  ELSE NaN

\* target_twh / load_sums_by_country: aligned on the union of the two indexes,
\* nan where either side is missing.
FactorRaw(n, c) ==
  IF c \in TargetKeys /\ c \in ModelCountries(n)
  THEN FDiv(target_twh(c), load_sums_by_country(n, c))
  ELSE NaN

\* Variant: the factors without dropna().
scaling_factors_keep_nan(n) == TargetKeys \cup ModelCountries(n)

\* scaling_factors.dropna(): the index that remains.  inf is not dropped.
scaling_factors(n) ==
  {c \in TargetKeys \cup ModelCountries(n) : FactorRaw(n, c).k # "nan"}

ScaleSeries(s, f) == [i \in 1..Len(s) |-> FMul(s[i], f)]

\* for load in n.loads.index: ... n.loads_t.p_set[load] *= scaling_factors[country]
\* Reading the column of a load that has none raises KeyError and ends the loop.
RECURSIVE RescaleLoop(_, _, _, _)
RescaleLoop(n, factors, i, p_set) ==
  IF i > Len(n.loads) THEN [p_set |-> p_set, raised |-> "none"]
  ELSE LET load == n.loads[i].name
           country == load_country(n, load)
       IN  IF country \in factors
           THEN IF load \in DOMAIN p_set
                THEN RescaleLoop(n, factors, i + 1,
                       [p_set EXCEPT ![load] = ScaleSeries(@, FactorRaw(n, country))])
                ELSE [p_set |-> p_set, raised |-> "KeyError"]
           ELSE RescaleLoop(n, factors, i + 1, p_set)

rescale_loads(n) ==
  LET r == RescaleLoop(n, scaling_factors(n), 1, n.loads_t_p_set)
  IN  [n |-> [n EXCEPT !.loads_t_p_set = r.p_set], raised |-> r.raised]

(***************************************************************************)
(* network.add: a new row at the end of the table.  What a name that is    *)
(* already in the table does is the library's policy and differs between   *)
(* its versions: the call raises, or logs and adds nothing, or replaces    *)
(* the row.                                                                *)
(***************************************************************************)
DuplicatePolicies == {"raise", "skip", "overwrite"}

add(table, row, policy) ==
  IF row.name \in Names(table)
  THEN CASE policy = "raise" -> [t |-> table, raised |-> "DuplicateName"]
         [] policy = "skip" -> [t |-> table, raised |-> "none"]
         [] OTHER ->
              [t |-> [i \in 1..Len(table) |->
                        IF table[i].name = row.name THEN row ELSE table[i]],
               raised |-> "none"]
  ELSE [t |-> Append(table, row), raised |-> "none"]

(***************************************************************************)
(* retrofit_hydro_to_phs                                                   *)
(***************************************************************************)
EFF_TURBINE == R(9, 10)

EFF_PUMP == R(85, 100)

RESERVOIR_HOURS == 24 * 7

CAPEX_PHS_PER_MW == R(1000000, 1)

CAPEX_RES_PER_MWH == R(200000, 1)

PHS(gid, suffix) == <<"P", "H", "S", "_">> \o gid \o suffix

\* Variant: the carrier compared without regard to case.
identify_hydro_generators_any_case(n) ==
  IF "carrier" \in n.generators_columns
  THEN SelectSeq(n.generators, LAMBDA g : g.carrier \in {"hydro", "Hydro", "HYDRO"})
  ELSE <<>>

identify_hydro_generators(n) ==
  IF "carrier" \in n.generators_columns
  THEN SelectSeq(n.generators, LAMBDA g : g.carrier = "hydro")
  ELSE <<>>

\* n.generators_t is the library's attribute dictionary (attribute name -> table):
\* reading an attribute of it is a key lookup, and a missing key raises
\* AttributeError.  It has no key "columns".
compute_inflow_timeseries(gen, n) ==
  IF "generators_t" \in DOMAIN n
  THEN IF "columns" \notin DOMAIN n.generators_t
       THEN [raised |-> "AttributeError", ts |-> <<>>]
       ELSE IF "p_max_pu" \in n.generators_t.columns
       THEN [raised |-> "none",
             ts |-> ScaleSeries(n.generators_t.p_max_pu[gen.name], gen.p_nom)]
       ELSE IF "p" \in n.generators_t.columns
       THEN [raised |-> "none", ts |-> n.generators_t.p[gen.name]]
       ELSE [raised |-> "none", ts |-> [i \in 1..Len(n.snapshots) |-> Zero]]
  ELSE [raised |-> "none", ts |-> [i \in 1..Len(n.snapshots) |-> Zero]]

remove(table, name) == SelectSeq(table, LAMBDA r : r.name # name)

\* The three n.add calls for one generator, stopping at the first that raises.
AddPhs(n, gid, bus, p_nom, policy) ==
  LET e_nom == FMul(p_nom, R(RESERVOIR_HOURS, 1))
      s == add(n.storage_units,
               With(StorageUnitDefaults,
                    [name |-> PHS(gid, <<"_", "s", "t", "o", "r", "e">>),
                     bus |-> bus, p_nom |-> None, e_nom |-> e_nom,
                     efficiency_store |-> One, standing_loss |-> Zero,
                     capital_cost |-> FMul(CAPEX_RES_PER_MWH, e_nom)]),
               policy)
      n1 == [n EXCEPT !.storage_units = s.t]
      g == add(n1.generators,
               With(GeneratorDefaults,
                    [name |-> PHS(gid, <<"_", "t", "u", "r", "b">>),
                     bus |-> bus, p_nom |-> p_nom, marginal_cost |-> Zero,
                     efficiency |-> EFF_TURBINE, p_nom_extendable |-> FALSE,
                     capital_cost |-> FMul(CAPEX_PHS_PER_MW, p_nom)]),
               policy)
      n2 == [n1 EXCEPT !.generators = g.t]
      l == add(n2.links,
               With(LinkDefaults,
                    [name |-> PHS(gid, <<"_", "p", "u", "m", "p", "_", "l", "i", "n", "k">>),
                     bus0 |-> bus, bus1 |-> bus, p_nom |-> p_nom,
                     efficiency |-> EFF_PUMP,
                     capital_cost |-> FMul(CAPEX_PHS_PER_MW, p_nom)]),
               policy)
      n3 == [n2 EXCEPT !.links = l.t]
  IN  IF s.raised # "none" THEN [n |-> n, raised |-> s.raised]
      ELSE IF g.raised # "none" THEN [n |-> n1, raised |-> g.raised]
      ELSE IF l.raised # "none" THEN [n |-> n2, raised |-> l.raised]
      ELSE [n |-> n3, raised |-> "none"]

\* for gid, gen_row in hydro.iterrows(): ...
RECURSIVE RetrofitLoop(_, _, _, _, _, _)
RetrofitLoop(hydro, i, n, created, remove_old, policy) ==
  IF i > Len(hydro) THEN [n |-> n, raised |-> "none", ret |-> "list", created |-> created]
  ELSE LET gen == hydro[i]
           gid == gen.name
           inflow_ts == compute_inflow_timeseries(gen, n)
           a == AddPhs(n, gid, gen.bus, gen.p_nom, policy)
       IN  IF gen.p_nom.n <= 0
           THEN RetrofitLoop(hydro, i + 1, n, created, remove_old, policy)
           ELSE IF inflow_ts.raised # "none"
           THEN [n |-> n, raised |-> inflow_ts.raised, ret |-> "raised",
                 created |-> created]
           ELSE IF a.raised # "none"
           THEN [n |-> a.n, raised |-> a.raised, ret |-> "raised", created |-> created]
           ELSE RetrofitLoop(hydro, i + 1,
                  IF remove_old
                  THEN [a.n EXCEPT !.generators = remove(@, gid)]
                  ELSE a.n,
                  Append(created, gid), remove_old, policy)

retrofit_hydro_to_phs(n, remove_old, policy) ==
  LET hydro == identify_hydro_generators(n)
  IN  IF hydro = <<>>
      THEN [n |-> n, raised |-> "none", ret |-> "None", created |-> <<>>]
      ELSE RetrofitLoop(hydro, 1, n, <<>>, remove_old, policy)

(***************************************************************************)
(* Input models.                                                           *)
(***************************************************************************)
Hydro == <<" ", "h", "y", "d", "r", "o">>

Battery == <<" ", "b", "a", "t", "t", "e", "r", "y">>

BusTables == {<<AT0>>, <<AT0, NO2>>, <<AT0, NO2, xAT0>>}

LoadName(i) == <<"l", Digit(i)>>

Series == {<<R(a, 1), R(b, 1)>> : a \in 0..MaxDemand, b \in {0, 2}}

LoadChoices(buses) ==
  {[bus |-> b, col |-> TRUE, s |-> s] : b \in Range(buses), s \in Series}
  \cup {[bus |-> b, col |-> FALSE, s |-> <<>>] : b \in Range(buses)}

LoadConfigs(buses) ==
  UNION {[1..k -> LoadChoices(buses)] : k \in 0..MaxLoads}

LoadsOf(cfg) == [i \in 1..Len(cfg) |-> [name |-> LoadName(i), bus |-> cfg[i].bus]]

PSetOf(cfg) ==
  LET cols == {i \in 1..Len(cfg) : cfg[i].col}
  IN  [nm \in {LoadName(i) : i \in cols} |->
         cfg[CHOOSE i \in cols : LoadName(i) = nm].s]

SU(name, bus, carrier, p_min_pu, efficiency_store) ==
  With(StorageUnitDefaults,
       [name |-> name, bus |-> bus, carrier |-> carrier, p_min_pu |-> p_min_pu,
        efficiency_store |-> efficiency_store])

StorageTables(buses) ==
  LET b1 == buses[1]
      bl == buses[Len(buses)]
  IN  { <<>>,
        <<SU(b1 \o Hydro, b1, "hydro", Zero, One)>>,
        <<SU(b1 \o Hydro, b1, "hydro", Zero, One),
          SU(bl \o <<" ", "P", "H", "S">>, bl, "PHS", R(-1, 1), R(3, 4)),
          SU(bl \o <<" ", "r", "o", "r">>, bl, "Hydro", Zero, R(1, 2))>>,
        <<With(SU(b1 \o Battery, b1, "batteries", R(-1, 1), R(4, 5)),
               [max_hours |-> R(4, 1)]),
          SU(bl \o Hydro, bl, "hydro", R(-1, 1), R(9, 10))>> }

Gen(name, bus, carrier, p_nom) ==
  With(GeneratorDefaults,
       [name |-> name, bus |-> bus, carrier |-> carrier, p_nom |-> p_nom])

GeneratorColumns ==
  {"bus", "carrier", "p_nom", "p_nom_extendable", "efficiency", "marginal_cost",
   "capital_cost"}

GeneratorTables(buses) ==
  LET b1 == buses[1]
      bl == buses[Len(buses)]
  IN  { <<>>,
        <<Gen(b1 \o Hydro, b1, "hydro", R(100, 1))>>,
        <<Gen(bl \o <<" ", "w">>, bl, "wind", R(5, 1)),
          Gen(b1 \o Hydro, b1, "hydro", Zero),
          Gen(bl \o <<" ", "h", "2">>, bl, "hydro", R(2, 1))>>,
        <<Gen(b1 \o <<" ", "H">>, b1, "Hydro", R(3, 1))>> }

Link(name, bus0, bus1, carrier, p_nom, ext) ==
  With(LinkDefaults,
       [name |-> name, bus0 |-> bus0, bus1 |-> bus1, carrier |-> carrier,
        p_nom |-> p_nom, p_nom_extendable |-> ext])

LinkTables(buses) ==
  LET b1 == buses[1]
      bl == buses[Len(buses)]
  IN  { <<>>,
        <<Link(<<"k", "1">>, b1, bl, "DC", R(5, 1), FALSE)>>,
        <<Link(<<"k", "1">>, b1, bl, "DC", Zero, TRUE),
          Link(<<"k", "2">>, bl, b1, "H2", R(7, 1), FALSE)>> }

LineTables(buses) ==
  LET b1 == buses[1]
      bl == buses[Len(buses)]
  IN  { <<>>,
        <<[name |-> <<"1">>, bus0 |-> b1, bus1 |-> bl, s_nom |-> R(9, 1),
           s_nom_extendable |-> FALSE]>> }

GlobalConstraintTables ==
  { <<>>,
    <<[name |-> <<"C", "O", "2", "L", "i", "m", "i", "t">>,
       carrier_attribute |-> "co2_emissions", sense |-> "<=",
       constant |-> R(5, 1)]>>,
    <<[name |-> <<"c", "a", "p">>, carrier_attribute |-> "co2_emissions",
       sense |-> "<=", constant |-> R(7, 1)]>> }

\* storage_units_t.inflow: a column of inflow over the snapshots for the units
\* of carrier "hydro" and "PHS", none for the others.
InflowOf(su, hours) ==
  [nm \in {su[i].name : i \in {j \in 1..Len(su) : su[j].carrier \in {"hydro", "PHS"}}}
     |-> [t \in 1..hours |-> R(2, 1)]]

Net(buses, cfg, su, gen, links, lines, gc) ==
  [buses |-> buses, loads |-> LoadsOf(cfg), loads_t_p_set |-> PSetOf(cfg),
   storage_units |-> su, storage_units_t_inflow |-> InflowOf(su, 2),
   generators |-> gen, generators_columns |-> GeneratorColumns,
   generators_t |-> [p_max_pu |-> <<>>, p |-> <<>>],
   links |-> links, lines |-> lines, global_constraints |-> gc,
   snapshots |-> <<1, 2>>, solved |-> FALSE]

FullBuses == <<AT0, NO2, xAT0>>

DefaultLoads == <<[bus |-> AT0, col |-> TRUE, s |-> <<One, One>>]>>

\* A generator table without the column "carrier".
NoCarrier(n) ==
  [n EXCEPT !.generators =
              [i \in 1..Len(@) |-> [f \in DOMAIN @[i] \ {"carrier"} |-> @[i][f]]],
            !.generators_columns = @ \ {"carrier"}]

\* The inputs: every load table over the three buses beside one fixed rest of the
\* model, every combination of the other tables beside one fixed load table, and
\* models whose generator table has no column "carrier".
Networks ==
  {NoCarrier(Net(FullBuses, DefaultLoads, su, gen, <<>>, <<>>, <<>>)) :
     su \in StorageTables(FullBuses), gen \in GeneratorTables(FullBuses) \ {<<>>}}
  \cup
  {Net(FullBuses, cfg,
       CHOOSE t \in StorageTables(FullBuses) : Len(t) = 3,
       CHOOSE t \in GeneratorTables(FullBuses) : Len(t) = 3,
       CHOOSE t \in LinkTables(FullBuses) : Len(t) = 2,
       CHOOSE t \in LineTables(FullBuses) : Len(t) = 1,
       <<>>) : cfg \in LoadConfigs(FullBuses)}
  \cup UNION {
    {Net(b, DefaultLoads, su, gen, links, lines, gc) :
       su \in StorageTables(b), gen \in GeneratorTables(b),
       links \in LinkTables(b), lines \in LineTables(b),
       gc \in GlobalConstraintTables} : b \in BusTables}

(***************************************************************************)
(* annuity.  Python's own float division raises ZeroDivisionError where    *)
(* numpy's gives inf or nan.                                               *)
(***************************************************************************)
FSub(x, y) == FAdd(x, FMul(R(-1, 1), y))

\* x ** e for an integer e: a negative e gives 1 / x ** -e.
RECURSIVE FPow(_, _)
FPow(x, e) ==
  IF e = 0 THEN One
  ELSE IF e < 0 THEN FDiv(One, FPow(x, -e))
  ELSE FMul(x, FPow(x, e - 1))

\* x / y on Python floats.
PyDiv(x, y) ==
  IF y = Zero THEN [value |-> None, raised |-> "ZeroDivisionError"]
  ELSE [value |-> FDiv(x, y), raised |-> "none"]

\* Variant: the general formula for every rate, with no fallback.
annuity_no_fallback(n, r) ==
  PyDiv(r, FSub(One, FPow(FAdd(One, r), -n)))

annuity(n, r) ==
  IF r.k = "inf" \/ (r.k = "fin" /\ r.n > 0)
  THEN PyDiv(r, FSub(One, FPow(FAdd(One, r), -n)))
  ELSE PyDiv(One, R(n, 1))

(***************************************************************************)
(* add_battery_storage                                                     *)
(***************************************************************************)
max_hours == 8

\* annuity(16, 0.05) * 81e3 * (1 + 0.021) + max_hours * annuity(16, 0.05) * 236e3,
\* kept as annuity(n, r) * (per_power + per_energy) with the annuity unevaluated:
\* 1.05^16 is beyond the model's integers.
BatteryCapitalCost ==
  [k |-> "annuity", n |-> 16, r |-> R(5, 100),
   per_power |-> FMul(R(81000, 1), FAdd(One, R(21, 1000))),
   per_energy |-> FMul(R(max_hours, 1), R(236000, 1))]

\* Variant: efficiency_dispatch not passed, so the unit keeps the default.
BatteryRow_default_dispatch(bus) ==
  With(StorageUnitDefaults,
       [name |-> bus \o Battery, bus |-> bus, carrier |-> "batteries",
        p_nom_extendable |-> TRUE, max_hours |-> R(max_hours, 1),
        efficiency_store |-> R(92, 100),
        capital_cost |-> BatteryCapitalCost, cyclic_state_of_charge |-> TRUE])

BatteryRow(bus) ==
  With(StorageUnitDefaults,
       [name |-> bus \o Battery, bus |-> bus, carrier |-> "batteries",
        p_nom_extendable |-> TRUE, max_hours |-> R(max_hours, 1),
        efficiency_store |-> R(92, 100), efficiency_dispatch |-> R(92, 100),
        capital_cost |-> BatteryCapitalCost, cyclic_state_of_charge |-> TRUE])

\* for bus in network.buses.index: network.add("StorageUnit", ...)
RECURSIVE BatteryLoop(_, _, _, _)
BatteryLoop(buses, i, su, policy) ==
  IF i > Len(buses) THEN [t |-> su, raised |-> "none"]
  ELSE LET a == add(su, BatteryRow(buses[i]), policy)
       IN  IF a.raised # "none" THEN a
           ELSE BatteryLoop(buses, i + 1, a.t, policy)

add_battery_storage(n, policy) ==
  LET r == BatteryLoop(n.buses, 1, n.storage_units, policy)
  IN  [n |-> [n EXCEPT !.storage_units = r.t], raised |-> r.raised]

(***************************************************************************)
(* add_co2_limit                                                           *)
(***************************************************************************)
CO2Limit == <<"C", "O", "2", "L", "i", "m", "i", "t">>

\* 1012028560.7495946 has more digits than the model's integers hold: it is kept
\* as a symbol, and a product with it is evaluated only for the factors 0 and 1.
base_co2_emissions == [k |-> "base_co2_emissions"]

\* Variant: the baseline itself, whatever the fraction.
TimesBase_ignores_fraction(f) == base_co2_emissions

TimesBase(f) ==
  IF f = Zero THEN Zero
  ELSE IF f = One THEN base_co2_emissions
  ELSE [k |-> "times", f |-> f, x |-> base_co2_emissions]

add_co2_limit(n, co2_limit, policy) ==
  LET a == add(n.global_constraints,
               [name |-> CO2Limit, carrier_attribute |-> "co2_emissions",
                sense |-> "<=", constant |-> TimesBase(co2_limit)],
               policy)
  IN  [n |-> [n EXCEPT !.global_constraints = a.t], raised |-> a.raised]

(***************************************************************************)
(* convert_hydro_to_phs, expand_transmission_capacity                      *)
(***************************************************************************)
\* Variant: the carrier compared without regard to case.
hydro_mask_any_case(row) == row.carrier \in {"hydro", "Hydro", "HYDRO"}

hydro_mask(row) == row.carrier = "hydro"

\* Variant: the generators of carrier "hydro" are dropped as well.
convert_hydro_to_phs_drops_generators(n) ==
  [n |-> [n EXCEPT !.storage_units =
            [i \in 1..Len(@) |->
               IF hydro_mask(@[i])
               THEN [@[i] EXCEPT !.p_min_pu = R(-1, 1), !.efficiency_store = R(9, 10)]
               ELSE @[i]],
                   !.generators = SelectSeq(@, LAMBDA g : g.carrier # "hydro")],
   raised |-> "none"]

convert_hydro_to_phs(n) ==
  [n |-> [n EXCEPT !.storage_units =
            [i \in 1..Len(@) |->
               IF hydro_mask(@[i])
               THEN [@[i] EXCEPT !.p_min_pu = R(-1, 1), !.efficiency_store = R(9, 10)]
               ELSE @[i]]],
   raised |-> "none"]

\* Variant: only links of carrier "DC" are made extendable.
ExpandRow_dc_only(row) ==
  IF row.carrier = "DC" THEN [row EXCEPT !.p_nom_extendable = TRUE] ELSE row

ExpandRow(row) == [row EXCEPT !.p_nom_extendable = TRUE]

expand_transmission_capacity(n) ==
  [n |-> [n EXCEPT !.links = [i \in 1..Len(@) |-> ExpandRow(@[i])]],
   raised |-> "none"]

(***************************************************************************)
(* scale_hydro_inflow_all_countries, scale_hydro_and_phs (Naime-2ndBlock)  *)
(***************************************************************************)
\* The characters of a carrier, for the carriers of the storage units at hand.
CarrierChars(carrier) ==
  CASE carrier = "hydro" -> <<"h", "y", "d", "r", "o">>
    [] carrier = "Hydro" -> <<"H", "y", "d", "r", "o">>
    [] carrier = "PHS" -> <<"P", "H", "S">>
    [] carrier = "batteries" -> <<"b", "a", "t", "t", "e", "r", "i", "e", "s">>
    [] carrier = "" -> <<>>

\* str.lower(), on the capital letters that occur in those carriers.
lower(s) ==
  [i \in 1..Len(s) |->
     CASE s[i] = "H" -> "h" [] s[i] = "P" -> "p" [] s[i] = "S" -> "s" [] OTHER -> s[i]]

\* sub in s
Contains(sub, s) ==
  \E i \in 1..(Len(s) - Len(sub) + 1) : SubSeq(s, i, i + Len(sub) - 1) = sub

phs == <<"p", "h", "s">>

\* if "phs" in str(su.carrier).lower(): continue
skip_phs(row) == Contains(phs, lower(CarrierChars(row.carrier)))

\* For every storage unit that is not skipped: its inflow column, if it has one,
\* and its static inflow are multiplied by factor.
scale_hydro_inflow_all_countries(n, factor) ==
  LET skipped == {n.storage_units[i].name :
                    i \in {j \in 1..Len(n.storage_units) : skip_phs(n.storage_units[j])}}
  IN  [n |-> [n EXCEPT
                !.storage_units_t_inflow =
                   [u \in DOMAIN @ |->
                      IF u \in skipped THEN @[u] ELSE ScaleSeries(@[u], factor)],
                !.storage_units =
                   [i \in 1..Len(@) |->
                      IF @[i].name \in skipped THEN @[i]
                      ELSE [@[i] EXCEPT !.inflow = FMul(@, factor)]]],
       raised |-> "none"]

\* generators of carrier 'hydro' and storage units whose carrier is 'phs' in lower
\* case are made extendable.
scale_hydro_and_phs(n) ==
  IF "carrier" \notin n.generators_columns
  THEN [n |-> n, raised |-> "KeyError"]
  ELSE [n |-> [n EXCEPT
                 !.generators =
                    [i \in 1..Len(@) |->
                       IF @[i].carrier = "hydro"
                       THEN [@[i] EXCEPT !.p_nom_extendable = TRUE] ELSE @[i]],
                 !.storage_units =
                    [i \in 1..Len(@) |->
                       IF lower(CarrierChars(@[i].carrier)) = phs
                       THEN [@[i] EXCEPT !.p_nom_extendable = TRUE] ELSE @[i]]],
        raised |-> "none"]

(***************************************************************************)
(* A caller applies one function of the scripts to a loaded model.         *)
(***************************************************************************)
Fractions == {Zero, R(1, 2), One}

NoCall ==
  [op |-> "none", raised |-> "none", co2_limit |-> Zero, remove_old |-> FALSE,
   policy |-> "none", ret |-> "none", created |-> <<>>,
   n |-> 1, r |-> Zero, value |-> None]

Idle ==
  /\ program = "caller"
  /\ file = network
  /\ co2_limits = <<>>
  /\ idx = 0
  /\ pc = "caller"
  /\ status = "none"
  /\ outputs = {}

Init ==
  /\ network \in Networks
  /\ pre = network
  /\ last = NoCall
  /\ Idle

Call(op, res, args) ==
  /\ last.op = "none"
  /\ network' = res.n
  /\ pre' = network
  /\ last' = With(NoCall, With(args, [op |-> op, raised |-> res.raised]))
  /\ UNCHANGED script

NoArgs == [policy |-> "none"]

CallRescaleLoads == Call("rescale_loads", rescale_loads(network), NoArgs)

CallConvertHydroToPhs ==
  Call("convert_hydro_to_phs", convert_hydro_to_phs(network), NoArgs)

CallExpandTransmissionCapacity ==
  Call("expand_transmission_capacity", expand_transmission_capacity(network), NoArgs)

CallAddBatteryStorage ==
  \E policy \in DuplicatePolicies :
    Call("add_battery_storage", add_battery_storage(network, policy),
         [policy |-> policy])

CallAddCo2Limit ==
  \E f \in Fractions, policy \in DuplicatePolicies :
    Call("add_co2_limit", add_co2_limit(network, f, policy),
         [co2_limit |-> f, policy |-> policy])

CallRetrofitHydroToPhs ==
  \E remove_old \in BOOLEAN, policy \in DuplicatePolicies :
    LET r == retrofit_hydro_to_phs(network, remove_old, policy)
    IN  Call("retrofit_hydro_to_phs", r,
             [remove_old |-> remove_old, policy |-> policy, ret |-> r.ret,
              created |-> r.created])

Next ==
  \/ CallRescaleLoads
  \/ CallConvertHydroToPhs
  \/ CallExpandTransmissionCapacity
  \/ CallAddBatteryStorage
  \/ CallAddCo2Limit
  \/ CallRetrofitHydroToPhs

Spec == Init /\ [][Next]_vars

(***************************************************************************)
(* A caller applies annuity to a lifetime and a discount rate.             *)
(***************************************************************************)
Lifetimes == 1..MaxLifetime

\* Rates r with small numerators and denominators of 1 + r, so that
\* (1 + r) ** MaxLifetime stays within the model's integers.
Rates ==
  {R(-1, 2), Zero, R(1, 5), R(1, 4), R(1, 3), R(1, 2), R(2, 3), One, R(3, 2),
   R(2, 1), R(3, 1)}

InitAnnuity ==
  /\ network = Net(FullBuses, DefaultLoads, <<>>, <<>>, <<>>, <<>>, <<>>)
  /\ pre = network
  /\ \E n \in Lifetimes, r \in Rates : last = With(NoCall, [n |-> n, r |-> r])
  /\ Idle

CallAnnuity ==
  /\ last.op = "none"
  /\ LET a == annuity(last.n, last.r)
     IN  last' = [last EXCEPT !.op = "annuity", !.raised = a.raised,
                              !.value = a.value]
  /\ UNCHANGED <<network, pre>>
  /\ UNCHANGED script

NextAnnuity == CallAnnuity

SpecAnnuity == InitAnnuity /\ [][NextAnnuity]_vars

(***************************************************************************)
(* The scenario scripts (__main__ of Naime-1stBlock.py and of              *)
(* Naime-2ndBlock.py): for each CO2 limit load the base file, edit the     *)
(* model, solve it and export it.  A call that raises ends the script.     *)
(***************************************************************************)
\* int(x) for a finite x: truncation toward zero.
int(x) == IF x.n >= 0 THEN x.n \div x.d ELSE -((-x.n) \div x.d)

\* f"...co2_{int(co2_limit * 100)}"
co2_folder(co2_limit) == int(FMul(co2_limit, R(100, 1)))

\* network.optimize: "ok" fills in the solution.  A solve that ends infeasible,
\* unbounded or in numerical trouble raises nothing: optimize returns that status
\* and leaves the model unsolved.  A solver that cannot be run at all raises.
SolverOutcomes == {"ok", "infeasible", "unbounded", "numerical", "unavailable"}

optimize(n, outcome) ==
  [n |-> IF outcome = "ok" THEN [n EXCEPT !.solved = TRUE] ELSE n,
   status |-> IF outcome = "unavailable" THEN "none" ELSE outcome,
   raised |-> IF outcome = "unavailable" THEN "SolverUnavailable" ELSE "none"]

\* solve_network drops what optimize returns and returns the network.
solve_network(n, outcome) == optimize(n, outcome)

\* network.snapshots = network.snapshots[:168], the series following the index.
SnapshotLimit == 168

Truncate(s) == SubSeq(s, 1, IF Len(s) < SnapshotLimit THEN Len(s) ELSE SnapshotLimit)

restrict_snapshots(n) ==
  [n EXCEPT !.snapshots = Truncate(@),
            !.loads_t_p_set = [l \in DOMAIN @ |-> Truncate(@[l])],
            !.storage_units_t_inflow = [u \in DOMAIN @ |-> Truncate(@[u])]]

Programs == {"Naime-1stBlock", "Naime-2ndBlock"}

\* The folder above the scenario folder: Naime-1stBlock keeps the NetCDF and the
\* CSV export apart, Naime-2ndBlock writes both under one prefix.
ExportRoot(prog, kind) ==
  IF prog = "Naime-1stBlock"
  THEN IF kind = "netcdf"
       THEN "all_hydro_to_phs_expand_transmission/netcdf/co2_"
       ELSE "./results/all_hydro_to_phs_expand_transmission/csv/co2_"
  ELSE "norway_hydro_scaled_results/network_co2_"

\* One export: the files of one kind written into root + str(folder), from the
\* model as it is in memory.
Export(kind, n, co2_limit) ==
  [kind |-> kind, root |-> ExportRoot(program, kind),
   folder |-> co2_folder(co2_limit), co2_limit |-> co2_limit, scenario |-> idx,
   solved |-> n.solved, status |-> status]

ShortFiles ==
  {n \in Networks : n.buses = FullBuses /\ Len(n.loads) <= 1
                    /\ Len(n.links) <= 1 /\ Len(n.lines) = 1
                    /\ "carrier" \in n.generators_columns}

\* Base files with more snapshots than the script keeps.
Hours == SnapshotLimit + 2

LongFiles ==
  {[n EXCEPT !.snapshots = [t \in 1..Hours |-> t],
             !.loads_t_p_set = [l \in DOMAIN @ |-> [t \in 1..Hours |-> One]],
             !.storage_units_t_inflow =
                [u \in DOMAIN @ |-> [t \in 1..Hours |-> R(2, 1)]]] :
     n \in {m \in ShortFiles : /\ Len(m.generators) = 1
                                /\ m.links = <<>>
                                /\ m.global_constraints = <<>>}}

Files == ShortFiles \cup LongFiles

ScenarioLists ==
  {<<Zero>>, <<One, Zero>>, <<R(1, 2), R(1, 2)>>, <<R(1, 200), Zero>>}

InitScenarios ==
  /\ program \in Programs
  /\ file \in Files
  /\ co2_limits \in ScenarioLists
  /\ network = file
  /\ pre = file
  /\ last = NoCall
  /\ idx = 1
  /\ pc = "load"
  /\ status = "none"
  /\ outputs = {}

\* One statement of the loop body: the model it leaves, what it raised, and where
\* the script goes on.
Step(at, res, to) ==
  /\ pc = at
  /\ network' = res.n
  /\ pc' = IF res.raised = "none" THEN to ELSE "crashed"
  /\ UNCHANGED <<pre, last, program, file, co2_limits, idx, outputs>>

\* Variant: the base file is read once, and every later scenario goes on with the
\* model the scenario before it has left.
LoadBase_once ==
  /\ idx <= Len(co2_limits)
  /\ Step("load", [n |-> IF idx = 1 THEN file ELSE network, raised |-> "none"],
          "rescale_loads")
  /\ status' = "none"

\* Variant: the snapshots are restricted as the file is loaded, before the loads
\* are rescaled.
LoadBase_restricted ==
  /\ idx <= Len(co2_limits)
  /\ Step("load", [n |-> restrict_snapshots(file), raised |-> "none"], "rescale_loads")
  /\ status' = "none"

\* network = load_and_create_base_network(): pypsa.Network(path) reads the file anew.
LoadBase ==
  /\ idx <= Len(co2_limits)
  /\ Step("load", [n |-> file, raised |-> "none"], "rescale_loads")
  /\ status' = "none"

RescaleLoads ==
  /\ Step("rescale_loads", rescale_loads(network),
          IF program = "Naime-1stBlock" THEN "convert_hydro_to_phs"
          ELSE "scale_hydro_inflow_all_countries")
  /\ UNCHANGED status

ScaleHydroInflowAllCountries ==
  /\ Step("scale_hydro_inflow_all_countries",
          scale_hydro_inflow_all_countries(network, R(3, 2)), "scale_hydro_and_phs")
  /\ UNCHANGED status

ScaleHydroAndPhs ==
  /\ Step("scale_hydro_and_phs", scale_hydro_and_phs(network), "add_battery_storage")
  /\ UNCHANGED status

ConvertHydroToPhs ==
  /\ Step("convert_hydro_to_phs", convert_hydro_to_phs(network),
          "expand_transmission_capacity")
  /\ UNCHANGED status

ExpandTransmissionCapacity ==
  /\ Step("expand_transmission_capacity", expand_transmission_capacity(network),
          "add_battery_storage")
  /\ UNCHANGED status

AddBatteryStorage ==
  /\ \E policy \in DuplicatePolicies :
       Step("add_battery_storage", add_battery_storage(network, policy),
            "add_co2_limit")
  /\ UNCHANGED status

AddCo2Limit ==
  /\ \E policy \in DuplicatePolicies :
       Step("add_co2_limit", add_co2_limit(network, co2_limits[idx], policy),
            "snapshots")
  /\ UNCHANGED status

RestrictSnapshots ==
  /\ Step("snapshots", [n |-> restrict_snapshots(network), raised |-> "none"],
          "solve_network")
  /\ UNCHANGED status

SolveNetwork ==
  \E outcome \in SolverOutcomes :
    LET r == solve_network(network, outcome)
    IN  /\ Step("solve_network", r, "export_network")
        /\ status' = r.status

ExportNetwork ==
  /\ pc = "export_network"
  /\ outputs' = outputs \cup {Export("netcdf", network, co2_limits[idx])}
  /\ pc' = "export_network_to_csv"
  /\ UNCHANGED <<network, pre, last, program, file, co2_limits, idx, status>>

ExportNetworkToCsv ==
  /\ pc = "export_network_to_csv"
  /\ outputs' = outputs \cup {Export("csv", network, co2_limits[idx])}
  /\ pc' = "load"
  /\ idx' = idx + 1
  /\ UNCHANGED <<network, pre, last, program, file, co2_limits, status>>

Finish ==
  /\ pc = "load"
  /\ idx > Len(co2_limits)
  /\ pc' = "done"
  /\ UNCHANGED <<network, pre, last, program, file, co2_limits, idx, status, outputs>>

NextScenarios ==
  \/ LoadBase
  \/ RescaleLoads
  \/ ConvertHydroToPhs
  \/ ScaleHydroInflowAllCountries
  \/ ScaleHydroAndPhs
  \/ ExpandTransmissionCapacity
  \/ AddBatteryStorage
  \/ AddCo2Limit
  \/ RestrictSnapshots
  \/ SolveNetwork
  \/ ExportNetwork
  \/ ExportNetworkToCsv
  \/ Finish

SpecScenarios == InitScenarios /\ [][NextScenarios]_vars

(***************************************************************************)
(* Properties.  The measurements below are stated on their own, not        *)
(* through the operators that model the functions.                        *)
(***************************************************************************)
\* The trailing token of a bus identifier split on '_'.
TrailingToken(bus) ==
  LET j == CHOOSE j \in 0..Len(bus) :
             /\ \A i \in (j + 1)..Len(bus) : bus[i] # "_"
             /\ j = 0 \/ bus[j] = "_"
  IN  SubSeq(bus, j + 1, Len(bus))

HasColumn(n, i) == n.loads[i].name \in DOMAIN n.loads_t_p_set

LoadsOfCountry(n, c) ==
  {i \in 1..Len(n.loads) : TrailingToken(n.loads[i].bus) = c}

\* Sum over all snapshots and all loads of country c, divided by 1e6.
DemandTWh(n, c) ==
  FDiv(FSum([i \in 1..Len(n.loads) |->
               IF i \in LoadsOfCountry(n, c) /\ HasColumn(n, i)
               THEN FSum(n.loads_t_p_set[n.loads[i].name])
               ELSE Zero]),
       R(1000000, 1))

\* Mapping value times the conversion constant 11.630.
TargetValue(c) ==
  FMul((CHOOSE e \in Range(gtoe_electricity) : e[1] = c)[2], R(11630, 1000))

AllFinite(n) ==
  \A l \in DOMAIN n.loads_t_p_set :
    \A t \in 1..Len(n.loads_t_p_set[l]) : IsFinite(n.loads_t_p_set[l][t])

Returned(op) == last.op = op /\ last.raised = "none"

\* C1: after rescale_loads has returned, every country that has a target value and
\* non-zero aggregated demand before the call has aggregated demand (in TWh) equal
\* to its target value.
C1_RoundTrip ==
  Returned("rescale_loads") =>
    \A c \in TargetKeys :
      (\E i \in LoadsOfCountry(pre, c) : HasColumn(pre, i))
      /\ DemandTWh(pre, c) # Zero
      => DemandTWh(network, c) = TargetValue(c)

\* C1 witness: rescale_loads returned having rescaled a country of two loads, one
\* of them on a bus whose identifier has a prefix before the country code.
C1_Witness ==
  /\ Returned("rescale_loads")
  /\ \E c \in TargetKeys :
       /\ Cardinality({i \in LoadsOfCountry(pre, c) : HasColumn(pre, i)}) = 2
       /\ \E i \in LoadsOfCountry(pre, c) : pre.loads[i].bus # c
       /\ DemandTWh(pre, c) = R(3, 1000000)
       /\ DemandTWh(network, c) = TargetValue(c)
       /\ network # pre

\* C2: a country with a target value whose aggregated demand is zero is skipped by
\* rescale_loads: its series are left as they were and no non-finite value is in
\* the load time-series table.
C2_ZeroDemandSkipped ==
  last.op = "rescale_loads" =>
    \A c \in TargetKeys :
      (\E i \in LoadsOfCountry(pre, c) : HasColumn(pre, i))
      /\ DemandTWh(pre, c) = Zero
      => /\ \A i \in LoadsOfCountry(pre, c) :
              HasColumn(pre, i) =>
                network.loads_t_p_set[pre.loads[i].name]
                  = pre.loads_t_p_set[pre.loads[i].name]
         /\ AllFinite(network)

\* C3: rescale_loads leaves the series of every load whose country has no target
\* value as it was, raises only for a load of a country that has one, and changes
\* nothing but values of the load time-series table.
C3_Frame ==
  last.op = "rescale_loads" =>
    /\ \A i \in 1..Len(pre.loads) :
         TrailingToken(pre.loads[i].bus) \notin TargetKeys /\ HasColumn(pre, i)
         => network.loads_t_p_set[pre.loads[i].name]
              = pre.loads_t_p_set[pre.loads[i].name]
    /\ last.raised # "none" =>
         \E i \in 1..Len(pre.loads) : TrailingToken(pre.loads[i].bus) \in TargetKeys
    /\ DOMAIN network.loads_t_p_set = DOMAIN pre.loads_t_p_set
    /\ network = [pre EXCEPT !.loads_t_p_set = network.loads_t_p_set]

\* C3 witness: rescale_loads returned having rescaled one load beside a load with
\* non-zero demand whose country has no target value.
C3_Witness ==
  /\ Returned("rescale_loads")
  /\ network # pre
  /\ \E i \in 1..Len(pre.loads) :
       /\ TrailingToken(pre.loads[i].bus) \notin TargetKeys
       /\ HasColumn(pre, i)
       /\ pre.loads_t_p_set[pre.loads[i].name] = <<One, R(2, 1)>>

\* C4: after convert_hydro_to_phs every storage unit with carrier "hydro" has
\* p_min_pu = -1 and efficiency_store = 0.9 and is otherwise as before, every other
\* storage unit is as before, and no other table has changed.
C4_ConvertHydro ==
  last.op = "convert_hydro_to_phs" =>
    /\ last.raised = "none"
    /\ Len(network.storage_units) = Len(pre.storage_units)
    /\ \A i \in 1..Len(pre.storage_units) :
         IF pre.storage_units[i].carrier = "hydro"
         THEN /\ network.storage_units[i].p_min_pu = R(-1, 1)
              /\ network.storage_units[i].efficiency_store = R(9, 10)
              /\ network.storage_units[i] =
                   [pre.storage_units[i] EXCEPT
                      !.p_min_pu = network.storage_units[i].p_min_pu,
                      !.efficiency_store = network.storage_units[i].efficiency_store]
         ELSE network.storage_units[i] = pre.storage_units[i]
    /\ network = [pre EXCEPT !.storage_units = network.storage_units]

\* C4 witness: convert_hydro_to_phs has changed a "hydro" storage unit in a model
\* that also holds a "Hydro" storage unit and a "hydro" generator.
C4_Witness ==
  /\ last.op = "convert_hydro_to_phs"
  /\ network # pre
  /\ \E i \in 1..Len(pre.storage_units) : pre.storage_units[i].carrier = "Hydro"
  /\ "carrier" \in pre.generators_columns
  /\ \E i \in 1..Len(pre.generators) : pre.generators[i].carrier = "hydro"

Store(gid) == <<"P", "H", "S", "_">> \o gid \o <<"_", "s", "t", "o", "r", "e">>

Turb(gid) == <<"P", "H", "S", "_">> \o gid \o <<"_", "t", "u", "r", "b">>

PumpLink(gid) ==
  <<"P", "H", "S", "_">> \o gid \o <<"_", "p", "u", "m", "p", "_", "l", "i", "n", "k">>

Has(table, name, P(_)) == \E i \in 1..Len(table) : table[i].name = name /\ P(table[i])

\* C5: after retrofit_hydro_to_phs every generator g with carrier "hydro" and
\* nominal power P > 0 has a storage unit PHS_<g>_store of energy capacity P * 168,
\* a generator PHS_<g>_turb (P, efficiency 0.9, not extendable) and a link
\* PHS_<g>_pump_link (P, efficiency 0.85, both ends g's bus), all on g's bus; g is
\* gone if remove_old, and present unchanged otherwise.
C5_Retrofit ==
  last.op = "retrofit_hydro_to_phs" /\ "carrier" \in pre.generators_columns =>
    \A j \in 1..Len(pre.generators) :
      LET g == pre.generators[j]
      IN  g.carrier = "hydro" /\ g.p_nom.n > 0 =>
            /\ Has(network.storage_units, Store(g.name),
                   LAMBDA r : r.bus = g.bus /\ r.e_nom = FMul(g.p_nom, R(168, 1)))
            /\ Has(network.generators, Turb(g.name),
                   LAMBDA r : /\ r.bus = g.bus /\ r.p_nom = g.p_nom
                              /\ r.efficiency = R(9, 10) /\ ~r.p_nom_extendable)
            /\ Has(network.links, PumpLink(g.name),
                   LAMBDA r : /\ r.bus0 = g.bus /\ r.bus1 = g.bus /\ r.p_nom = g.p_nom
                              /\ r.efficiency = R(85, 100))
            /\ IF last.remove_old
               THEN g.name \notin Names(network.generators)
               ELSE Has(network.generators, g.name, LAMBDA r : r = g)

C7_LinesExtendable ==
  last.op = "expand_transmission_capacity" =>
    /\ \A i \in 1..Len(network.lines) : network.lines[i].s_nom_extendable
    /\ \A i \in 1..Len(network.links) : network.links[i].p_nom_extendable

NoBatteryName(n) ==
  \A j \in 1..Len(n.buses) : (n.buses[j] \o Battery) \notin Names(n.storage_units)

\* C8: add_battery_storage on a model with no storage unit named "<bus> battery"
\* appends one storage unit per bus, named "<bus> battery", on that bus, with
\* carrier "batteries", extendable, max_hours 8, both efficiencies 0.92, cyclic
\* state of charge and one capital cost for all; the earlier storage units and
\* the other tables are as before.
C8_Batteries ==
  last.op = "add_battery_storage" /\ NoBatteryName(pre) =>
    LET old == Len(pre.storage_units)
        new(j) == network.storage_units[old + j]
    IN  /\ last.raised = "none"
        /\ Len(network.storage_units) = old + Len(pre.buses)
        /\ SubSeq(network.storage_units, 1, old) = pre.storage_units
        /\ \A j \in 1..Len(pre.buses) :
             /\ Cardinality({i \in 1..Len(network.storage_units) :
                   network.storage_units[i].name = pre.buses[j] \o Battery}) = 1
             /\ new(j).name = pre.buses[j] \o Battery
             /\ new(j).bus = pre.buses[j]
             /\ new(j).carrier = "batteries"
             /\ new(j).p_nom_extendable
             /\ new(j).max_hours = R(8, 1)
             /\ new(j).efficiency_store = R(92, 100)
             /\ new(j).efficiency_dispatch = R(92, 100)
             /\ new(j).cyclic_state_of_charge
             /\ new(j).capital_cost = new(1).capital_cost
        /\ network = [pre EXCEPT !.storage_units = network.storage_units]

\* C8 witness: add_battery_storage has run on a model of three buses and three
\* storage units, none of them named "<bus> battery".
C8_Witness ==
  /\ last.op = "add_battery_storage"
  /\ NoBatteryName(pre)
  /\ Len(pre.buses) = 3
  /\ Len(pre.storage_units) = 3
  /\ Len(network.storage_units) = 6

\* C9: add_co2_limit with fraction f on a model without a constraint "CO2Limit"
\* appends exactly one global constraint, "CO2Limit", on "co2_emissions", with
\* sense "<=" and constant f times the baseline (0 for f = 0), and changes no
\* other table.
C9_Co2Limit ==
  last.op = "add_co2_limit" /\ CO2Limit \notin Names(pre.global_constraints) =>
    LET old == Len(pre.global_constraints)
        row == network.global_constraints[old + 1]
        f == last.co2_limit
    IN  /\ last.raised = "none"
        /\ Len(network.global_constraints) = old + 1
        /\ SubSeq(network.global_constraints, 1, old) = pre.global_constraints
        /\ row.name = CO2Limit
        /\ row.carrier_attribute = "co2_emissions"
        /\ row.sense = "<="
        /\ f = Zero => row.constant = Zero
        /\ f = One => row.constant = base_co2_emissions
        /\ f \notin {Zero, One} =>
             row.constant = [k |-> "times", f |-> f, x |-> base_co2_emissions]
        /\ network = [pre EXCEPT !.global_constraints = network.global_constraints]

\* C9 witness: add_co2_limit(network, 0) has run on a model that held one other
\* global constraint.
C9_Witness ==
  /\ last.op = "add_co2_limit"
  /\ last.co2_limit = Zero
  /\ Len(pre.global_constraints) = 1
  /\ CO2Limit \notin Names(pre.global_constraints)
  /\ Len(network.global_constraints) = 2
  /\ network.global_constraints[2].constant = Zero

\* C10: a solve that ends in failure ends the scenario: the script does not go on
\* to the exports, and every export written holds a solved model.
C10_FailedSolveNotExported ==
  /\ status \in {"infeasible", "unbounded", "numerical"} => pc = "crashed"
  /\ \A o \in outputs : o.solved

BatteryUnits(n) ==
  {i \in 1..Len(n.storage_units) : n.storage_units[i].carrier = "batteries"}

\* C11: in both scenario scripts every scenario starts from the model as the base
\* file holds it, whatever the earlier scenarios did to the model in memory; and
\* for a base file with no "<bus> battery" unit and no "CO2Limit" constraint the
\* model handed to the solver has one more storage unit of carrier "batteries" per
\* bus than the file and exactly one constraint named "CO2Limit".
C11_ScenarioIsolation ==
  /\ pc = "rescale_loads" => network = file
  /\ pc = "solve_network" /\ NoBatteryName(file)
       /\ CO2Limit \notin Names(file.global_constraints) =>
         /\ Cardinality(BatteryUnits(network))
              = Cardinality(BatteryUnits(file)) + Len(file.buses)
         /\ Cardinality({i \in 1..Len(network.global_constraints) :
                           network.global_constraints[i].name = CO2Limit}) = 1

\* C11 witness: the second scenario of Naime-2ndBlock is about to be solved, after
\* a first scenario that rescaled the loads and added batteries and a CO2 limit
\* to a base file holding three storage units and one other constraint.
C11_Witness ==
  /\ program = "Naime-2ndBlock"
  /\ pc = "solve_network"
  /\ idx = 2
  /\ Cardinality(outputs) = 2
  /\ NoBatteryName(file)
  /\ Len(file.storage_units) = 3
  /\ Len(file.global_constraints) = 1
  /\ CO2Limit \notin Names(file.global_constraints)
  /\ Cardinality(BatteryUnits(network)) = 3
  /\ Len(network.global_constraints) = 2

\* C12: every export goes to the folder co2_<int(fraction * 100)> of its kind, and
\* two exports of one kind made for different CO2-cap fractions go to different
\* folders, so that none overwrites the other.
C12_FoldersPartition ==
  \A o1 \in outputs, o2 \in outputs :
    /\ o1.folder = int(FMul(o1.co2_limit, R(100, 1)))
    /\ o1.kind = o2.kind /\ o1.co2_limit # o2.co2_limit =>
         <<o1.root, o1.folder>> # <<o2.root, o2.folder>>

\* A model of three buses whose only generator is a "hydro" generator of nominal
\* power 100 on the first bus, and which holds no global constraint.
OneHydroGenerator(n) ==
  /\ Len(n.buses) = 3
  /\ Len(n.generators) = 1
  /\ n.generators[1].carrier = "hydro"
  /\ n.generators[1].p_nom = R(100, 1)
  /\ n.generators[1].bus = n.buses[1]
  /\ n.global_constraints = <<>>

AfterPipeline(prog, limits) ==
  /\ program = prog
  /\ co2_limits = limits
  /\ pc = "done"
  /\ OneHydroGenerator(file)

\* C13 as stated: after the whole pipeline has run on that model with the CO2
\* fraction 0, the constraint table holds exactly one constraint and its bound is
\* 0, the hydro generator is gone from the generator table, and the storage table
\* holds a new reservoir of energy capacity 100 * 168.
C13_EndToEnd ==
  AfterPipeline("Naime-1stBlock", <<Zero>>) =>
    /\ Len(network.global_constraints) = 1
    /\ network.global_constraints[1].constant = Zero
    /\ file.generators[1].name \notin Names(network.generators)
    /\ Has(network.storage_units, Store(file.generators[1].name),
           LAMBDA r : r.e_nom = FMul(R(100, 1), R(168, 1)))

\* C13 amended: after the whole Naime-1stBlock pipeline has run on that model with
\* the CO2 fraction 0, the constraint table holds exactly one constraint and its
\* bound is 0, the generator table is as in the base file, the hydro generator
\* still in it, and the storage table holds no reservoir: no unit named
\* PHS_<generator>_store and no unit with an energy capacity.
C13_EndToEndStorageVariant ==
  AfterPipeline("Naime-1stBlock", <<Zero>>) =>
    /\ Len(network.global_constraints) = 1
    /\ network.global_constraints[1].name = CO2Limit
    /\ network.global_constraints[1].constant = Zero
    /\ network.generators = file.generators
    /\ Store(file.generators[1].name) \notin Names(network.storage_units)
    /\ \A i \in 1..Len(network.storage_units) : network.storage_units[i].e_nom = None

\* C13 witness: the Naime-1stBlock pipeline has run to its end for the fraction 0
\* on such a model with three storage units: solved, exported twice, with three
\* batteries added.
C13_Witness ==
  /\ AfterPipeline("Naime-1stBlock", <<Zero>>)
  /\ network.solved
  /\ Cardinality(outputs) = 2
  /\ Len(file.storage_units) = 3
  /\ Len(network.storage_units) = 6
  /\ Len(network.snapshots) = 2

Absent(n, gid) ==
  /\ Store(gid) \notin Names(n.storage_units)
  /\ Turb(gid) \notin Names(n.generators)
  /\ PumpLink(gid) \notin Names(n.links)

\* C14: retrofit_hydro_to_phs passes over a "hydro" generator of nominal power
\* <= 0 without raising: nothing is created for it, it is not among the created
\* ones, and it stays in the generator table as it was, also with remove_old; and
\* the call goes on, so that every "hydro" generator of positive nominal power in
\* the same table, before or after it, has its reservoir, turbine and pump link.
C14_SkipNonPositive ==
  last.op = "retrofit_hydro_to_phs" /\ "carrier" \in pre.generators_columns =>
    \A j \in 1..Len(pre.generators) :
      LET g == pre.generators[j]
      IN  g.carrier = "hydro" /\ g.p_nom.n <= 0 =>
            /\ Absent(network, g.name)
            /\ \A i \in 1..Len(last.created) : last.created[i] # g.name
            /\ Has(network.generators, g.name, LAMBDA r : r = g)
            /\ last.raised = "none"
            /\ \A h \in 1..Len(pre.generators) :
                 pre.generators[h].carrier = "hydro" /\ pre.generators[h].p_nom.n > 0 =>
                   /\ Store(pre.generators[h].name) \in Names(network.storage_units)
                   /\ Turb(pre.generators[h].name) \in Names(network.generators)
                   /\ PumpLink(pre.generators[h].name) \in Names(network.links)

\* C15: retrofit_hydro_to_phs on a model whose generator table has no column
\* "carrier", or has no generator of carrier exactly "hydro", raises nothing,
\* leaves every table as it was and reports nothing created.
C15_NoHydroNoOp ==
  /\ last.op = "retrofit_hydro_to_phs"
  /\ \/ "carrier" \notin pre.generators_columns
     \/ \A j \in 1..Len(pre.generators) : pre.generators[j].carrier # "hydro"
  => /\ last.raised = "none"
     /\ network = pre
     /\ last.created = <<>>
     /\ last.ret = "None"

\* C15 witness: retrofit_hydro_to_phs with remove_old has returned on a model of
\* three generators whose table has no column "carrier".
C15_Witness ==
  /\ last.op = "retrofit_hydro_to_phs"
  /\ last.remove_old
  /\ "carrier" \notin pre.generators_columns
  /\ Len(pre.generators) = 3
  /\ Len(pre.storage_units) = 3
  /\ last.ret = "None"
  /\ network = pre

\* 1 - (1 + r)^(-n) for a rate r = a/b and a whole n: ((a + b)^n - b^n) / (a + b)^n.
Discounted(n, r) == R((r.n + r.d)^n - r.d^n, (r.n + r.d)^n)

\* C16: for every positive lifetime n, annuity(n, 0) returns 1/n without raising,
\* and for a rate r > 0 annuity(n, r) returns r / (1 - (1 + r)^(-n)), so that
\* annuity(n, r) * (1 - (1 + r)^(-n)) = r.
C16_Annuity ==
  last.op = "annuity" =>
    /\ last.r = Zero =>
         /\ last.raised = "none"
         /\ last.value = R(1, last.n)
    /\ last.r.n > 0 =>
         /\ last.raised = "none"
         /\ last.value.k = "fin"
         /\ FMul(last.value, Discounted(last.n, last.r)) = last.r

\* C16 witness: annuity(3, 1/2) has returned 27/38 = (1/2) / (1 - (2/3)^3).
C16_Witness ==
  /\ last.op = "annuity"
  /\ last.n = 3
  /\ last.r = R(1, 2)
  /\ last.value = R(27, 38)

\* The statements of the loop body of Naime-1stBlock, in the order of the text.
Statements ==
  <<"load", "rescale_loads", "convert_hydro_to_phs", "expand_transmission_capacity",
    "add_battery_storage", "add_co2_limit", "snapshots", "solve_network",
    "export_network", "export_network_to_csv">>

\* One step of the script in that order: to the next statement of the same
\* scenario, from the last statement to the load of the next scenario, from the
\* load after the last scenario to the end, or out of the script by a raise.
InOrder ==
  \/ pc' = pc
  \/ pc' = "crashed"
  \/ \E i \in 1..(Len(Statements) - 1) :
       pc = Statements[i] /\ pc' = Statements[i + 1] /\ idx' = idx
  \/ /\ pc = Statements[Len(Statements)]
     /\ pc' = Statements[1]
     /\ idx' = idx + 1
  \/ pc = Statements[1] /\ pc' = "done" /\ idx = Len(co2_limits) + 1 /\ idx' = idx

\* C17: Naime-1stBlock runs its scenarios in list order and, within a scenario,
\* its statements once each in the order load, rescale loads, convert hydro,
\* expand transmission, add batteries, add CO2 limit, restrict snapshots, solve,
\* export NetCDF, export CSV: the model is edited only before the solve, the
\* solve alone fills in the solution, the exports come after it, change nothing
\* and carry the fraction of the scenario in turn; and the loads are rescaled over
\* all the snapshots of the file, the restriction to the first 168 coming later,
\* so that each country's demand over all of them then equals its target.
C17_LinearPipeline ==
  [][program = "Naime-1stBlock" =>
       /\ InOrder
       /\ network' # network =>
            \E i \in 1..8 : pc = Statements[i]
       /\ network'.solved /\ ~network.solved => pc = "solve_network"
       /\ outputs' # outputs =>
            /\ pc \in {"export_network", "export_network_to_csv"}
            /\ network' = network
            /\ \E o \in outputs' \ outputs :
                 /\ outputs' = outputs \cup {o}
                 /\ o.scenario = idx
                 /\ o.co2_limit = co2_limits[idx]
       /\ pc = "rescale_loads" =>
            /\ network.snapshots = file.snapshots
            /\ network.loads_t_p_set = file.loads_t_p_set
            /\ pc' = "convert_hydro_to_phs" =>
                 /\ network'.snapshots = file.snapshots
                 /\ \A c \in TargetKeys :
                      (\E i \in LoadsOfCountry(file, c) : HasColumn(file, i))
                      /\ DemandTWh(file, c) # Zero
                      => DemandTWh(network', c) = TargetValue(c)
       /\ pc' = "solve_network" /\ pc # pc' =>
            /\ pc = "snapshots"
            /\ Len(network'.snapshots) <= SnapshotLimit
            /\ network'.snapshots = SubSeq(file.snapshots, 1, Len(network'.snapshots))
  ]_vars

\* C17 witness: Naime-1stBlock has run two scenarios to the end on a base file of
\* 170 snapshots: four exports, the model solved over 168 snapshots, and a load
\* whose demand in each of them is 1/170 of its country's target, so that the
\* demand over the 168 is short of the target.
C17_Witness ==
  /\ program = "Naime-1stBlock"
  /\ pc = "done"
  /\ idx = 3
  /\ Cardinality(outputs) = 4
  /\ network.solved
  /\ Len(file.snapshots) = SnapshotLimit + 2
  /\ Len(network.snapshots) = SnapshotLimit
  /\ \E i \in 1..Len(network.loads) :
       /\ HasColumn(network, i)
       /\ TrailingToken(network.loads[i].bus) \in TargetKeys
       /\ Len(network.loads_t_p_set[network.loads[i].name]) = SnapshotLimit
       /\ FMul(network.loads_t_p_set[network.loads[i].name][1],
               R(SnapshotLimit + 2, 1))
            = FMul(TargetValue(TrailingToken(network.loads[i].bus)), R(1000000, 1))

====
